---- MODULE Spec2Model ----
(***************************************************************************)
(* Model of the song catalog server of src/src/main.rs: the kv bucket      *)
(* `db`, the shared `is_dirty` flag, the background flush task spawned by  *)
(* main, and the request handlers add_song and play_song, each run by a    *)
(* tokio task of the multi-threaded runtime, so that handlers interleave   *)
(* between their accesses to the bucket and to the flag.                   *)
(***************************************************************************)
EXTENDS Integers, Sequences, FiniteSets, TLC

(* ---------------------------------------------------------------- bounds *)

\* Number of request-handling tasks; each serves one request.
NumHandlers == 2

\* Largest number of entries of the bucket a search is checked on.
MaxStored == 2

(* ------------------------------------------------------------ u32 values *)

\* Song.play_count is a u32. A u32 is kept as two 16-bit limbs, so that the
\* values next to 2^32 - 1 can be written: hi * 65536 + lo.
Limb == 65536

U32(n) == [hi |-> n \div Limb, lo |-> n % Limb]

U32Max == [hi |-> Limb - 1, lo |-> Limb - 1]

\* `play_count += 1` of a release build: the addition wraps at 2^32.
WrappingInc(v) ==
    IF v.lo < Limb - 1 THEN [hi |-> v.hi, lo |-> v.lo + 1]
    ELSE IF v.hi < Limb - 1 THEN [hi |-> v.hi + 1, lo |-> 0]
    ELSE [hi |-> 0, lo |-> 0]

\* b = a + 1 on the numbers the limbs stand for.
IsSucc32(a, b) ==
    \/ a.lo < Limb - 1 /\ b = [hi |-> a.hi, lo |-> a.lo + 1]
    \/ a.lo = Limb - 1 /\ a.hi < Limb - 1 /\ b = [hi |-> a.hi + 1, lo |-> 0]

(* ------------------------------------------------------- request inputs *)

\* Text is a sequence of characters.
Titles == {<<"y", "e">>}
Artists == {<<"B">>}
Genres == {<<"R">>}

\* The id a client may put in the body of a create (absent: serde default 0).
ClientIds == {0, 7}

\* The play_count a client may put in the body of a create (absent: 0).
ClientPlayCounts == {U32(0), U32Max}

\* struct Song, as deserialized from the body of POST /songs/new.
Payloads ==
    [id : ClientIds, title : Titles, artist : Artists, genre : Genres,
     play_count : ClientPlayCounts]

\* The `id` path parameter of GET /songs/play/:id, as the router hands it
\* over: any text. Digits are those of the ids the bounds let exist.
Digits == {"0", "1", "2"}

IdParams ==
    { <<>>, <<"+">>, <<"-">>, <<"x">>, <<"0">>, <<"1">>, <<"2">>,
      <<"+", "1">>, <<"-", "1">>, <<"0", "2">>, <<"1", "2">>, <<"1", "x">>,
      <<"x", "1">>, <<"+", "+", "1">>, <<"1", "+">> }

DigitValue(c) ==
    CASE c = "0" -> 0 [] c = "1" -> 1 [] c = "2" -> 2

RECURSIVE DigitsValue(_)
DigitsValue(ds) ==
    IF ds = <<>> THEN 0
    ELSE DigitsValue(SubSeq(ds, 1, Len(ds) - 1)) * 10 + DigitValue(ds[Len(ds)])

\* str::parse::<usize>: an optional leading '+', then one or more decimal
\* digits; anything else (empty, a lone sign, '-', a non-digit) is an Err.
\* The texts of IdParams are too short to overflow a usize.
ParseErr == [ok |-> FALSE, value |-> 0]

ParseUsize(s) ==
    IF s = <<>> THEN ParseErr
    ELSE IF Len(s) = 1 /\ s[1] \in {"+", "-"} THEN ParseErr
    ELSE LET ds == IF s[1] = "+" THEN Tail(s) ELSE s
         IN  IF \E i \in 1..Len(ds) : ds[i] \notin Digits THEN ParseErr
             ELSE [ok |-> TRUE, value |-> DigitsValue(ds)]

\* The query parameters of GET /songs/search: a HashMap<String, String>,
\* kept as its set of (key, value) entries, no key twice.
Queries ==
    { {},
      {<<"title", <<"e">>>>},
      {<<"title", <<"H", "E">>>>},
      {<<"title", <<"x">>>>},
      {<<"title", <<>>>>},
      {<<"artist", <<"b">>>>},
      {<<"genre", <<"r">>>>},
      {<<"year", <<"1">>>>},
      {<<"Title", <<"x">>>>},
      {<<"title", <<"e">>>>, <<"year", <<"1">>>>},
      {<<"title", <<"y">>>>, <<"artist", <<"B">>>>},
      {<<"title", <<"y">>>>, <<"artist", <<"a">>>>},
      {<<"title", <<"h">>>>, <<"artist", <<"b">>>>, <<"genre", <<"R">>>>} }

\* char::to_lowercase on the letters the texts of the model use.
LowerChar(c) ==
    CASE c = "H" -> "h" [] c = "E" -> "e" [] c = "Y" -> "y"
      [] c = "B" -> "b" [] c = "R" -> "r" [] c = "A" -> "a"
      [] OTHER -> c

\* str::to_lowercase
ToLowercase(s) == [i \in 1..Len(s) |-> LowerChar(s[i])]

\* str::contains(&str): sub occurs in s as a run of consecutive characters.
Contains(s, sub) ==
    \E i \in 0..(Len(s) - Len(sub)) : SubSeq(s, i + 1, i + Len(sub)) = sub

(* ----------------------------------------------------------------- state *)

VARIABLES
    store,      \* db: the bucket, a function from the keys present to Songs
    is_dirty,   \* the Mutex<bool> shared by the handlers and the flush task
    fpc,        \* where the flush task is in its loop
    pc,         \* where each handler is
    kind,       \* the request each handler serves
    id,         \* each handler's local `id`
    song,       \* each handler's local `song`
    status,     \* the status code each handler answered with
    cover,      \* how far each handler's db.set has got towards the disk
    loaded,     \* number of songs the bucket held when the server started
    query,      \* each handler's `params` of a search
    hits,       \* the songs each handler's search answered with
    flushes,    \* number of db.flush_async() calls the flush task has made
    taken       \* the flush task's last pass read the flag set (flush =
                \* true) and no handler has set the flag since

vars == <<store, is_dirty, fpc, pc, kind, id, song, status, cover, loaded,
          query, hits, flushes, taken>>

Handlers == 1..NumHandlers

NoSong == [id |-> 0, title |-> <<>>, artist |-> <<>>, genre |-> <<>>,
           play_count |-> U32(0)]

\* db.len()
DbLen == Cardinality(DOMAIN store)

\* db.set(key, value).unwrap(), when the set succeeds
DbSet(key, value) ==
    [k \in DOMAIN store \cup {key} |-> IF k = key THEN value ELSE store[k]]

\* The bucket "songs" of ./song_db is opened, not created: it holds what
\* earlier runs of the server stored in it, here nothing or one song.
StoredSong ==
    [id |-> 1, title |-> <<"H", "e", "y">>, artist |-> <<"B">>,
     genre |-> <<"R">>, play_count |-> U32(0)]

InitialStores == {<<>>, <<StoredSong>>}

Init ==
    /\ store \in InitialStores
    /\ loaded = Cardinality(DOMAIN store)
    /\ is_dirty = FALSE
    /\ fpc = "check"
    /\ pc = [h \in Handlers |-> "start"]
    /\ kind = [h \in Handlers |-> "none"]
    /\ id = [h \in Handlers |-> 0]
    /\ song = [h \in Handlers |-> NoSong]
    /\ status = [h \in Handlers |-> "none"]
    /\ cover = [h \in Handlers |-> "none"]
    /\ query = [h \in Handlers |-> {}]
    /\ hits = [h \in Handlers |-> <<>>]
    /\ flushes = 0
    /\ taken = FALSE

(* ------------------------------------------------------------- add_song *)

\* An id two past the number of songs.
NextIdSkips == DbLen + 2

\* let id = db.len() + 1;
NextId == DbLen + 1

\* Song { id, ..payload }: every field but id is the payload's.
NewSong(newid, payload) == [payload EXCEPT !.id = newid]

\* add_song up to its read of the bucket's length.
AddLen(h) ==
    /\ pc[h] = "start"
    /\ \E payload \in Payloads :
          /\ id' = [id EXCEPT ![h] = NextId]
          /\ song' = [song EXCEPT ![h] = NewSong(NextId, payload)]
    /\ kind' = [kind EXCEPT ![h] = "add"]
    /\ pc' = [pc EXCEPT ![h] = "add_set"]
    /\ UNCHANGED <<store, is_dirty, fpc, status, cover, loaded, query, hits,
                 flushes, taken>>

\* db.set(&kv::Integer::from(id), &song) returning Ok.
AddSet(h) ==
    /\ pc[h] = "add_set"
    /\ store' = DbSet(id[h], song[h])
    /\ cover' = [cover EXCEPT ![h] = "written"]
    /\ pc' = [pc EXCEPT ![h] = "add_mark"]
    /\ UNCHANGED <<is_dirty, fpc, kind, id, song, status, loaded, query, hits,
                 flushes, taken>>

\* add_song going on after a db.set that returned Err (`let _ =` in place of
\* the unwrap).
AddSetIgnoresErr(h) ==
    /\ pc[h] = "add_set"
    /\ pc' = [pc EXCEPT ![h] = "add_mark"]
    /\ UNCHANGED <<store, is_dirty, fpc, kind, id, song, status, cover, loaded,
                   query, hits, flushes, taken>>

\* db.set(..) returning Err: the unwrap panics, the handler's locals are
\* dropped and the handler ends there.
AddSetFail(h) ==
    /\ pc[h] = "add_set"
    /\ pc' = [pc EXCEPT ![h] = "panicked"]
    /\ status' = [status EXCEPT ![h] = "panic"]
    /\ id' = [id EXCEPT ![h] = 0]
    /\ song' = [song EXCEPT ![h] = NoSong]
    /\ UNCHANGED <<store, is_dirty, fpc, kind, cover, loaded, query, hits,
                 flushes, taken>>

\* add_song returning its song without marking the bucket dirty.
AddMarkSkipsDirty(h) ==
    /\ pc[h] = "add_mark"
    /\ status' = [status EXCEPT ![h] = "200"]
    /\ pc' = [pc EXCEPT ![h] = "done"]
    /\ UNCHANGED <<store, is_dirty, fpc, kind, id, song, cover, loaded, query, hits,
                 flushes, taken>>

\* *state.is_dirty.lock().await = true; then the song is returned (200).
AddMark(h) ==
    /\ pc[h] = "add_mark"
    /\ is_dirty' = TRUE
    /\ taken' = FALSE
    /\ status' = [status EXCEPT ![h] = "200"]
    /\ pc' = [pc EXCEPT ![h] = "done"]
    /\ UNCHANGED <<store, fpc, kind, id, song, cover, loaded, query, hits,
                   flushes>>

(* ------------------------------------------------------------ play_song *)

\* A get that answers an absent key with a fresh song instead of None.
DbGetOrDefault(key) ==
    IF key \in DOMAIN store THEN [found |-> TRUE, value |-> store[key]]
    ELSE [found |-> TRUE, value |-> [NoSong EXCEPT !.id = key]]

\* db.get(key) returning Ok: Some(song) for a key present, None otherwise.
DbGet(key) ==
    IF key \in DOMAIN store THEN [found |-> TRUE, value |-> store[key]]
    ELSE [found |-> FALSE, value |-> NoSong]

\* play_song answering without a write: the status is recorded and the
\* handler ends ("panic": the handler task panicked, dropped its locals and
\* answered nothing).
PlayEnd(h, code) ==
    /\ status' = [status EXCEPT ![h] = code]
    /\ pc' = [pc EXCEPT ![h] = IF code = "panic" THEN "panicked" ELSE "done"]
    /\ id' = [id EXCEPT ![h] = IF code = "panic" THEN 0 ELSE @]
    /\ UNCHANGED <<store, is_dirty, fpc, kind, song, cover, loaded, query, hits,
                 flushes, taken>>

\* params.get("id") is Some(id) on this route; id.parse::<usize>().unwrap()
\* panics on an Err and gives the local `id` otherwise.
PlayParse(h) ==
    /\ pc[h] = "start"
    /\ \E param \in IdParams :
          LET parsed == ParseUsize(param)
          IN  IF parsed.ok
              THEN /\ id' = [id EXCEPT ![h] = parsed.value]
                   /\ pc' = [pc EXCEPT ![h] = "play_get"]
                   /\ status' = status
              ELSE /\ id' = id
                   /\ pc' = [pc EXCEPT ![h] = "panicked"]
                   /\ status' = [status EXCEPT ![h] = "panic"]
    /\ kind' = [kind EXCEPT ![h] = "play"]
    /\ UNCHANGED <<store, is_dirty, fpc, song, cover, loaded, query, hits,
                 flushes, taken>>

\* play_song from db.get to `play_count += 1`: a key that is absent, or a
\* get that fails, answers 404; on a song whose play_count is u32::MAX the
\* addition panics (overflow checks on) or wraps (overflow checks off).
PlayGet(h) ==
    /\ pc[h] = "play_get"
    /\ LET got == DbGet(id[h])
       IN  IF ~got.found THEN PlayEnd(h, "404")
           ELSE \/ PlayEnd(h, "404")
                \/ /\ got.value.play_count = U32Max
                   /\ PlayEnd(h, "panic")
                \/ /\ song' = [song EXCEPT ![h] =
                         [got.value EXCEPT !.play_count = WrappingInc(@)]]
                   /\ pc' = [pc EXCEPT ![h] = "play_set"]
                   /\ UNCHANGED <<store, is_dirty, fpc, kind, id, status,
                                  cover, loaded, query, hits, flushes, taken>>

\* db.set(&kv::Integer::from(id), &song) returning Ok.
PlaySet(h) ==
    /\ pc[h] = "play_set"
    /\ store' = DbSet(id[h], song[h])
    /\ cover' = [cover EXCEPT ![h] = "written"]
    /\ pc' = [pc EXCEPT ![h] = "play_mark"]
    /\ UNCHANGED <<is_dirty, fpc, kind, id, song, status, loaded, query, hits,
                 flushes, taken>>

\* db.set(..) returning Err: the unwrap panics, the handler's locals are
\* dropped and the handler ends there.
PlaySetFail(h) ==
    /\ pc[h] = "play_set"
    /\ pc' = [pc EXCEPT ![h] = "panicked"]
    /\ status' = [status EXCEPT ![h] = "panic"]
    /\ id' = [id EXCEPT ![h] = 0]
    /\ song' = [song EXCEPT ![h] = NoSong]
    /\ UNCHANGED <<store, is_dirty, fpc, kind, cover, loaded, query, hits,
                 flushes, taken>>

\* play_song returning its song without marking the bucket dirty.
PlayMarkSkipsDirty(h) ==
    /\ pc[h] = "play_mark"
    /\ status' = [status EXCEPT ![h] = "200"]
    /\ pc' = [pc EXCEPT ![h] = "done"]
    /\ UNCHANGED <<store, is_dirty, fpc, kind, id, song, cover, loaded, query,
                   hits, flushes, taken>>

\* *state.is_dirty.lock().await = true; then the song is returned (200).
PlayMark(h) ==
    /\ pc[h] = "play_mark"
    /\ is_dirty' = TRUE
    /\ taken' = FALSE
    /\ status' = [status EXCEPT ![h] = "200"]
    /\ pc' = [pc EXCEPT ![h] = "done"]
    /\ UNCHANGED <<store, fpc, kind, id, song, cover, loaded, query, hits,
                   flushes>>

(* ---------------------------------------------------------- search_song *)

\* An entry of the bucket that iter() or item.value::<kv::Json<Song>>()
\* answers with an Err: it does not read as a Song.
Unreadable == [unreadable |-> TRUE]

Readable(item) == "title" \in DOMAIN item

\* A loop over params whose `_` arm drops the song instead of passing.
KeepSongStrictKeys(s, params) ==
    \A kv \in params :
        CASE kv[1] = "title" ->
                 Contains(ToLowercase(s.title), ToLowercase(kv[2]))
          [] kv[1] = "artist" ->
                 Contains(ToLowercase(s.artist), ToLowercase(kv[2]))
          [] kv[1] = "genre" ->
                 Contains(ToLowercase(s.genre), ToLowercase(kv[2]))
          [] OTHER -> FALSE

\* The loop over params, for one song: a "title", "artist" or "genre" entry
\* whose lower-cased value the lower-cased field does not contain drops the
\* song (return None); any other key does nothing.
KeepSong(s, params) ==
    \A kv \in params :
        CASE kv[1] = "title" ->
                 Contains(ToLowercase(s.title), ToLowercase(kv[2]))
          [] kv[1] = "artist" ->
                 Contains(ToLowercase(s.artist), ToLowercase(kv[2]))
          [] kv[1] = "genre" ->
                 Contains(ToLowercase(s.genre), ToLowercase(kv[2]))
          [] OTHER -> TRUE

MinKey(keys) == CHOOSE k \in keys : \A j \in keys : k <= j

\* db.iter().filter_map(..).collect(): the entries in key order, those that
\* do not read as a Song skipped, the songs the loop keeps collected.
RECURSIVE ScanFrom(_, _)
ScanFrom(keys, params) ==
    IF keys = {} THEN <<>>
    ELSE LET k == MinKey(keys)
             rest == ScanFrom(keys \ {k}, params)
         IN  IF Readable(store[k]) /\ KeepSong(store[k], params)
             THEN <<store[k]>> \o rest
             ELSE rest

SearchSong(params) == ScanFrom(DOMAIN store, params)

\* A search that marks the bucket dirty as the writing handlers do.
SearchMarksDirty(h) ==
    /\ pc[h] = "start"
    /\ \E params \in Queries :
          /\ query' = [query EXCEPT ![h] = params]
          /\ hits' = [hits EXCEPT ![h] = SearchSong(params)]
    /\ kind' = [kind EXCEPT ![h] = "search"]
    /\ status' = [status EXCEPT ![h] = "200"]
    /\ pc' = [pc EXCEPT ![h] = "done"]
    /\ is_dirty' = TRUE
    /\ taken' = FALSE
    /\ UNCHANGED <<store, fpc, id, song, cover, loaded, flushes>>

\* search_song: the scan of the bucket, answered as Json(songs) (200).
Search(h) ==
    /\ pc[h] = "start"
    /\ \E params \in Queries :
          /\ query' = [query EXCEPT ![h] = params]
          /\ hits' = [hits EXCEPT ![h] = SearchSong(params)]
    /\ kind' = [kind EXCEPT ![h] = "search"]
    /\ status' = [status EXCEPT ![h] = "200"]
    /\ pc' = [pc EXCEPT ![h] = "done"]
    /\ UNCHANGED <<store, is_dirty, fpc, id, song, cover, loaded,
                 flushes, taken>>

(* ----------------------------------------------------------- flush task *)

\* A pass that flushes whatever the flag says (no `if flush`).
FlushCheckAlways ==
    /\ fpc = "check"
    /\ fpc' = "flush"
    /\ is_dirty' = FALSE
    /\ taken' = is_dirty
    /\ UNCHANGED <<store, pc, kind, id, song, status, cover, loaded, query,
                   hits, flushes>>

\* A pass that reads the flag and leaves it set (no `*dirty = false`).
FlushCheckKeepsFlag ==
    /\ fpc = "check"
    /\ fpc' = IF is_dirty THEN "flush" ELSE "check"
    /\ taken' = is_dirty
    /\ UNCHANGED <<store, is_dirty, pc, kind, id, song, status, cover, loaded,
                   query, hits, flushes>>

\* One pass of the block that holds the lock: flush = *dirty, and the flag
\* is reset when it was set. With the flag clear the loop comes round again.
FlushCheck ==
    /\ fpc = "check"
    /\ fpc' = IF is_dirty THEN "flush" ELSE "check"
    /\ is_dirty' = IF is_dirty THEN FALSE ELSE is_dirty
    /\ taken' = is_dirty
    /\ UNCHANGED <<store, pc, kind, id, song, status, cover, loaded, query,
                   hits, flushes>>

\* if flush { db.flush_async() ...: the flush covers the writes made so far.
FlushStart ==
    /\ fpc = "flush"
    /\ cover' = [h \in Handlers |->
                    IF cover[h] = "written" THEN "flushing" ELSE cover[h]]
    /\ fpc' = "await"
    /\ flushes' = flushes + 1
    /\ UNCHANGED <<store, is_dirty, pc, kind, id, song, status, loaded, query,
                   hits, taken>>

\* A loop that resets the flag once its flush has completed.
FlushOkThenClear ==
    /\ fpc = "await"
    /\ cover' = [h \in Handlers |->
                    IF cover[h] = "flushing" THEN "flushed" ELSE cover[h]]
    /\ fpc' = "check"
    /\ is_dirty' = FALSE
    /\ UNCHANGED <<store, pc, kind, id, song, status, loaded, query, hits,
                 flushes, taken>>

\* ... .await returning Ok: the loop comes round again.
FlushOk ==
    /\ fpc = "await"
    /\ cover' = [h \in Handlers |->
                    IF cover[h] = "flushing" THEN "flushed" ELSE cover[h]]
    /\ fpc' = "check"
    /\ UNCHANGED <<store, is_dirty, pc, kind, id, song, status, loaded, query, hits,
                 flushes, taken>>

\* ... .await returning Err: the unwrap panics and the flush task ends; the
\* writes it was to cover are not on the disk.
FlushErr ==
    /\ fpc = "await"
    /\ fpc' = "panicked"
    /\ cover' = [h \in Handlers |->
                    IF cover[h] = "flushing" THEN "written" ELSE cover[h]]
    /\ UNCHANGED <<store, is_dirty, pc, kind, id, song, status, loaded, query, hits,
                 flushes, taken>>

(* -------------------------------------------------------- specifications *)

Next ==
    \/ \E h \in Handlers : AddLen(h)
    \/ \E h \in Handlers : AddSet(h)
    \/ \E h \in Handlers : AddSetFail(h)
    \/ \E h \in Handlers : AddMark(h)
    \/ \E h \in Handlers : PlayParse(h)
    \/ \E h \in Handlers : PlayGet(h)
    \/ \E h \in Handlers : PlaySet(h)
    \/ \E h \in Handlers : PlaySetFail(h)
    \/ \E h \in Handlers : PlayMark(h)
    \/ \E h \in Handlers : Search(h)
    \/ FlushCheck
    \/ FlushStart
    \/ FlushOk
    \/ FlushErr

Spec == Init /\ [][Next]_vars

\* A handler that has started runs to its end, and the flush task keeps
\* looping: the runtime's scheduler is fair to ready tasks and tokio's Mutex
\* hands the lock over in FIFO order. Requests need not arrive.
HandlerSteps(h) ==
    \/ AddSet(h) \/ AddSetFail(h) \/ AddMark(h)
    \/ PlayGet(h) \/ PlaySet(h) \/ PlaySetFail(h) \/ PlayMark(h)

Fairness ==
    /\ \A h \in Handlers : WF_vars(HandlerSteps(h))
    /\ WF_vars(FlushCheck)
    /\ WF_vars(FlushStart)

\* The server with fair scheduling; a flush in progress ends, well or not.
FairSpec == Spec /\ Fairness /\ WF_vars(FlushOk \/ FlushErr)

\* The creates, the plays and the flush task with fair scheduling, on a disk
\* whose flushes all succeed. Searches, which touch neither the bucket nor
\* the flag, are left to Spec.
NextFlushOk ==
    \/ \E h \in Handlers : AddLen(h)
    \/ \E h \in Handlers : AddSet(h)
    \/ \E h \in Handlers : AddSetFail(h)
    \/ \E h \in Handlers : AddMark(h)
    \/ \E h \in Handlers : PlayParse(h)
    \/ \E h \in Handlers : PlayGet(h)
    \/ \E h \in Handlers : PlaySet(h)
    \/ \E h \in Handlers : PlaySetFail(h)
    \/ \E h \in Handlers : PlayMark(h)
    \/ FlushCheck
    \/ FlushStart
    \/ FlushOk

FairSpecFlushOk == Init /\ [][NextFlushOk]_vars /\ Fairness /\ WF_vars(FlushOk)

\* search_song alone, on every bucket of up to MaxStored entries: entry k
\* is a song stored under its id k, or an entry that does not read as one.
SearchItems(k) ==
    { [id |-> k, title |-> <<"H", "e", "y">>, artist |-> <<"B">>,
       genre |-> <<"R">>, play_count |-> U32(0)],
      [id |-> k, title |-> <<"y", "e">>, artist |-> <<"B">>,
       genre |-> <<"R">>, play_count |-> U32(0)],
      [id |-> k, title |-> <<"y", "e">>, artist |-> <<"a">>,
       genre |-> <<"R">>, play_count |-> U32(0)],
      Unreadable }

SearchStores ==
    UNION { {f \in [1..n -> UNION {SearchItems(k) : k \in 1..n}] :
                \A k \in 1..n : f[k] \in SearchItems(k)} : n \in 0..MaxStored }

SearchInit ==
    /\ store \in SearchStores
    /\ loaded = Cardinality(DOMAIN store)
    /\ is_dirty = FALSE
    /\ fpc = "check"
    /\ pc = [h \in Handlers |-> "start"]
    /\ kind = [h \in Handlers |-> "none"]
    /\ id = [h \in Handlers |-> 0]
    /\ song = [h \in Handlers |-> NoSong]
    /\ status = [h \in Handlers |-> "none"]
    /\ cover = [h \in Handlers |-> "none"]
    /\ query = [h \in Handlers |-> {}]
    /\ hits = [h \in Handlers |-> <<>>]
    /\ flushes = 0
    /\ taken = FALSE

SearchNext == \E h \in Handlers : Search(h)

SearchSpec == SearchInit /\ [][SearchNext]_vars

(* ----------------------------------------------------------------- claims *)

\* The handlers serving a create that have read the bucket's length (and so
\* hold their id), and those among them that have answered.
Creates ==
    {h \in Handlers : kind[h] = "add" /\ pc[h] \in {"add_set", "add_mark", "done"}}

CompletedCreates == {h \in Creates : pc[h] = "done"}

\* The handlers that answered 200 to a play of key k, and those between
\* their db.get of k and their answer.
CompletedPlays(k) ==
    {h \in Handlers : kind[h] = "play" /\ status[h] = "200" /\ id[h] = k}

InFlightPlays(k) ==
    {h \in Handlers : pc[h] \in {"play_set", "play_mark"} /\ id[h] = k}

\* Key k came into being with play_count 0 and was written by no second
\* create: it was in the bucket at startup, or one create stored it with 0.
StartsAtZero(k) ==
    \/ k <= loaded /\ \A h \in Creates : id[h] # k
    \/ /\ k > loaded
       /\ \E h \in Creates :
             /\ id[h] = k /\ pc[h] # "add_set"
             /\ song[h].play_count = U32(0)
             /\ \A g \in Creates : id[g] = k => g = h

\* C1: when N plays of an id whose play_count started at 0 have all
\* completed (answered 200) and none is in progress, the stored play_count
\* of that id is N: no increment is lost.
C1_NoLostUpdate ==
    \A k \in DOMAIN store :
        (StartsAtZero(k) /\ InFlightPlays(k) = {})
            => store[k].play_count = U32(Cardinality(CompletedPlays(k)))

\* C2: no two creates are assigned the same id, and once the creates in
\* progress have completed the bucket holds one more record per completed
\* create than it held at startup.
C2_CreatesGetDistinctIds ==
    /\ \A g, h \in Creates : g # h => id[g] # id[h]
    /\ (\A h \in Handlers : pc[h] \notin {"add_set", "add_mark"})
          => DbLen = loaded + Cardinality(CompletedCreates)

\* C3: the db.set of a create stores the record under the key (number of
\* records in the bucket just before that set) + 1, and the record's id
\* field is that key, whatever id the body carried.
C3_IdIsCountPlusOne ==
    [][\A h \in Handlers :
          (pc[h] = "add_set" /\ pc'[h] = "add_mark")
              => /\ id[h] = Cardinality(DOMAIN store) + 1
                 /\ id[h] \in DOMAIN store'
                 /\ store'[id[h]] = song[h]
                 /\ song[h].id = id[h]]_vars

\* C4: the record a create stores and returns has play_count 0, whatever
\* play_count the body carried.
C4_CreatedPlayCountIsZero ==
    \A h \in Handlers :
        (kind[h] = "add" /\ pc[h] \in {"add_mark", "done"})
            => song[h].play_count = U32(0)

\* C5: from one state to the next every stored record stays stored and
\* its play_count either stays the same or grows by exactly 1.
C5_PlayCountMonotonic ==
    [][\A k \in DOMAIN store :
          /\ k \in DOMAIN store'
          /\ \/ store'[k].play_count = store[k].play_count
             \/ IsSucc32(store[k].play_count, store'[k].play_count)]_vars

\* C6: with flushes that succeed and fair scheduling, the write of every
\* handler that has completed (answered 200) is eventually covered by a
\* completed flush that started after the write was applied.
C6_WritesEventuallyFlushed ==
    \A h \in Handlers :
        (pc[h] = "done" /\ cover[h] # "none") ~> (cover[h] = "flushed")

\* A handler has completed its write and its mark while an earlier flush
\* was still in progress, so that only a later flush can cover the write.
C6_Witness ==
    \E h \in Handlers :
        /\ pc[h] = "done" /\ cover[h] = "written"
        /\ fpc = "await"

\* C7: when the flush of a cycle fails, the dirty flag is true after that
\* cycle.
C7_FailedFlushKeepsDirty ==
    [][FlushErr => is_dirty']_vars

\* C8: after a flush that fails the flush task keeps running: it is back
\* at the check of the dirty flag.
C8_LoopSurvivesFailedFlush ==
    [][(fpc = "await" /\ fpc' # "await") => fpc' = "check"]_vars

\* C9: a play whose id is not a key of the bucket answers 404 and ends
\* without a panic, and its step changes neither the bucket nor the flag.
C9_AbsentIdNotFound ==
    [][\A h \in Handlers :
          (pc[h] = "play_get" /\ pc'[h] # "play_get" /\ id[h] \notin DOMAIN store)
              => /\ status'[h] = "404"
                 /\ pc'[h] = "done"
                 /\ store' = store
                 /\ is_dirty' = is_dirty]_vars

\* A play has answered 404 for an id that is no key of a bucket holding
\* other songs.
C9_Witness ==
    \E h \in Handlers :
        /\ kind[h] = "play" /\ pc[h] = "done" /\ status[h] = "404"
        /\ store # <<>>
        /\ id[h] \notin DOMAIN store

\* C10: a play whose id path parameter does not parse as an integer answers
\* 400 and ends without a panic, the bucket and the flag unchanged.
C10_BadIdIsValidationError ==
    [][\A h \in Handlers :
          (pc[h] = "start" /\ kind'[h] = "play" /\ pc'[h] # "play_get")
              => /\ status'[h] = "400"
                 /\ pc'[h] = "done"
                 /\ store' = store
                 /\ is_dirty' = is_dirty]_vars

\* The stored records, and those of them that match every entry of params
\* whose key is title, artist or genre (the field, lower-cased, contains the
\* value, lower-cased).
StoredRecords == {store[k] : k \in {j \in DOMAIN store : Readable(store[j])}}

Recognized == {"title", "artist", "genre"}

MatchingRecords(params) ==
    {r \in StoredRecords :
        \A kv \in params :
            kv[1] \in Recognized
                => Contains(ToLowercase(r[kv[1]]), ToLowercase(kv[2]))}

Searched == {h \in Handlers : kind[h] = "search" /\ pc[h] = "done"}

\* C11: a search returns exactly the stored records that match every
\* filter whose key is title, artist or genre, each once; other keys
\* exclude nothing, and with no filter every stored record is returned.
C11_SearchReturnsMatches ==
    \A h \in Searched :
        /\ {hits[h][i] : i \in 1..Len(hits[h])} = MatchingRecords(query[h])
        /\ Len(hits[h]) = Cardinality(MatchingRecords(query[h]))
        /\ (\A kv \in query[h] : kv[1] \notin Recognized)
              => Len(hits[h]) = Cardinality(StoredRecords)

\* A search with two recognized filters has returned some of the stored
\* records and not others, and a search with only an unknown key has
\* returned two records.
C11_Witness ==
    /\ \E h \in Searched :
          /\ Cardinality({kv \in query[h] : kv[1] \in Recognized}) = 2
          /\ Len(hits[h]) = 1
          /\ Cardinality(StoredRecords) = 2
    /\ \E h \in Searched :
          /\ query[h] # {}
          /\ \A kv \in query[h] : kv[1] \notin Recognized
          /\ Len(hits[h]) = 2

\* C12: the db.get step of a play leaves the handler with the stored record,
\* its play_count greater by exactly 1 and its other fields as stored; the
\* db.set step stores that record under the id, where a lookup reads it;
\* and it is the record the handler returns.
C12_PlayAddsExactlyOne ==
    [][\A h \in Handlers :
          /\ (pc[h] = "play_get" /\ pc'[h] = "play_set")
                => /\ IsSucc32(store[id[h]].play_count, song'[h].play_count)
                   /\ song'[h] = [store[id[h]] EXCEPT
                                      !.play_count = song'[h].play_count]
          /\ (pc[h] = "play_set" /\ pc'[h] = "play_mark")
                => (DbGet(id[h]).found' /\ DbGet(id[h]).value' = song[h])
          /\ (pc[h] = "play_mark" /\ pc'[h] = "done")
                => (status'[h] = "200" /\ song'[h] = song[h])]_vars

\* C13: the flag goes from true to false only in the flush task's
\* test-and-clear, which returns true and so leads into a flush that starts
\* after it; and whenever the flag is set (a markDirty has completed, be it
\* during a flush) such a test-and-clear follows.
C13_MarkIsTakenAndFlushed ==
    /\ [][(is_dirty /\ ~is_dirty') => (fpc = "check" /\ fpc' = "flush")]_vars
    /\ is_dirty ~> ~is_dirty

\* C14, as claimed: the flag is false at startup, and it goes from true to
\* false only in a step of the flush task that completes a flush.
C14_ClearedOnlyAfterFlush ==
    /\ ~is_dirty
    /\ [][(is_dirty /\ ~is_dirty') => (fpc = "await" /\ fpc' = "check")]_vars

\* C14, amended: the flag is false at startup, and it goes from true to
\* false only in the flush task's test-and-clear, a step of no handler,
\* that opens a flush cycle: before that cycle's flush starts, not after it.
C14_ClearedOnlyByTake ==
    /\ ~is_dirty
    /\ [][(is_dirty /\ ~is_dirty')
            => (fpc = "check" /\ fpc' = "flush" /\ pc' = pc)]_vars

\* The flag has been cleared in a cycle whose flush has not started yet,
\* with a write waiting for it.
C14_Witness ==
    /\ ~is_dirty /\ fpc = "flush"
    /\ \E h \in Handlers : pc[h] = "done" /\ cover[h] = "written"

\* The handlers whose markDirty has completed: a create or a play answers
\* 200 only from the step that sets the flag.
MarkDirtyCalls ==
    Cardinality({h \in Handlers :
                    kind[h] \in {"add", "play"} /\ status[h] = "200"})

\* The flush task's pass over the flag (takeIfDirty) is the only step that
\* starts at "check" and moves no handler; it answers true by going on to
\* the flush and false by coming round to "check".
TakeStep == fpc = "check" /\ pc' = pc

\* C15: a create or a play whose db.set fails leaves the bucket and the flag
\* as they were and does not answer 200; a handler's step sets the flag, and
\* a create or a play answers 200, only after that handler's db.set has
\* succeeded.
C15_FailedWriteMarksNothing ==
    [][\A h \in Handlers :
          /\ (pc[h] \in {"add_set", "play_set"} /\ pc'[h] = "panicked")
                => (store' = store /\ is_dirty' = is_dirty
                    /\ status'[h] # "200")
          /\ (pc'[h] # pc[h] /\ is_dirty' /\ ~is_dirty)
                => cover[h] # "none"
          /\ (pc[h] \in {"add_mark", "play_mark"} /\ pc'[h] # pc[h])
                => cover[h] # "none"
          /\ (kind'[h] \in {"add", "play"} /\ status'[h] = "200")
                => cover'[h] # "none"]_vars

\* A create's db.set has failed: nothing was stored and the flag is clear.
C15_Witness ==
    /\ \E h \in Handlers :
          kind[h] = "add" /\ pc[h] = "panicked" /\ cover[h] = "none"
    /\ DbLen = loaded
    /\ ~is_dirty

\* C16: the flush task calls flush_async only in a pass that read the flag
\* set; a pass with no markDirty since the last pass that read it set does
\* not flush; the flushes are never more than the completed markDirty calls.
C16_FlushOnlyWhenTaken ==
    /\ [](flushes <= MarkDirtyCalls)
    /\ [][/\ (flushes' # flushes) => (fpc = "flush" /\ fpc' = "await")
          /\ (fpc' = "flush" /\ fpc # "flush")
                => (fpc = "check" /\ is_dirty /\ ~is_dirty')
          /\ (TakeStep /\ taken) => (fpc' = "check" /\ flushes' = flushes)
       ]_vars

\* Two completed markDirty calls have been served by one flush.
C16_Witness ==
    /\ flushes = 1 /\ MarkDirtyCalls = 2
    /\ ~is_dirty /\ fpc = "check"

\* C17: a pass over a set flag answers true, and a pass that follows a pass
\* that answered true, with no markDirty between the two, answers false.
C17_SecondTakeIsFalse ==
    [][/\ (TakeStep /\ is_dirty) => (fpc' = "flush" /\ taken')
       /\ (TakeStep /\ taken) => (fpc' = "check" /\ ~taken')]_vars

\* After one markDirty the flag was taken and flushed, and one more pass
\* has read it clear.
C17_Witness ==
    /\ MarkDirtyCalls = 1 /\ flushes = 1
    /\ fpc = "check" /\ ~is_dirty /\ ~taken

\* C18: the keys of the bucket are 1..db.len(), and the song under key k has
\* id k.
C18_IdsAreDense ==
    /\ DOMAIN store = 1..DbLen
    /\ \A k \in DOMAIN store : store[k].id = k

\* A create has added a song after the ones loaded and a play has written
\* a song back.
C18_Witness ==
    /\ DbLen > loaded
    /\ \E h \in Handlers : kind[h] = "add" /\ pc[h] = "done"
    /\ \E h \in Handlers : kind[h] = "play" /\ status[h] = "200"

\* C19: with flushes that succeed, whenever the flag is clear, the flush
\* task is not between reading the flag set and the end of its flush, and no
\* handler is between its db.set and its markDirty, every db.set made has
\* been covered by a flush that started after it and has completed.
C19_CleanMeansFlushed ==
    (/\ ~is_dirty
     /\ fpc \notin {"flush", "await"}
     /\ \A h \in Handlers : pc[h] \notin {"add_mark", "play_mark"})
       => \A h \in Handlers : cover[h] \in {"none", "flushed"}

\* Every handler has ended, two of them after a db.set, and the flag is
\* clear with the flush task back at the head of its loop.
C19_Witness ==
    /\ ~is_dirty /\ fpc = "check"
    /\ \A h \in Handlers : pc[h] \in {"done", "panicked"}
    /\ Cardinality({h \in Handlers : cover[h] = "flushed"}) = 2

\* C20: a search changes neither the bucket nor the flag, and moves neither
\* the flush task nor the progress of any write towards the disk; while the
\* only requests served are searches the flag stays clear and no flush is
\* made.
C20_SearchIsReadOnly ==
    /\ []((\A h \in Handlers : kind[h] \in {"none", "search"})
            => (~is_dirty /\ flushes = 0 /\ fpc = "check"))
    /\ [][\A h \in Handlers :
             (kind[h] = "none" /\ kind'[h] = "search")
                => (store' = store /\ is_dirty' = is_dirty /\ fpc' = fpc
                    /\ flushes' = flushes /\ cover' = cover)]_vars

\* Searches that found songs are all the server has served.
C20_Witness ==
    /\ \A h \in Handlers : kind[h] = "search" /\ pc[h] = "done"
    /\ \E h \in Handlers : Len(hits[h]) > 0
    /\ \E h \in Handlers : query[h] # {} /\ hits[h] = <<>>

====
